---- MODULE Spec2Model ----
(***************************************************************************)
(* Resume scoring application: the heuristic scorer (analyzeResume), the   *)
(* ResumeScoring component that schedules it behind a 1500 ms timer, the   *)
(* Index page that owns the resume content, and the ResumeUpload file      *)
(* pipeline.                                                               *)
(*                                                                         *)
(* A text is a sequence of one-character strings.  JavaScript numbers are   *)
(* modelled as exact rationals extended with NaN and the two infinities;    *)
(* binary rounding error of IEEE doubles is not modelled.                   *)
(***************************************************************************)
EXTENDS Integers, Sequences, FiniteSets, TLC

(***************************************************************************)
(* Characters and strings                                                  *)
(***************************************************************************)
UpperCase ==
  <<"A", "B", "C", "D", "E", "F", "G", "H", "I", "J", "K", "L", "M",
    "N", "O", "P", "Q", "R", "S", "T", "U", "V", "W", "X", "Y", "Z">>

LowerCase ==
  <<"a", "b", "c", "d", "e", "f", "g", "h", "i", "j", "k", "l", "m",
    "n", "o", "p", "q", "r", "s", "t", "u", "v", "w", "x", "y", "z">>

Range(s) == {s[i] : i \in 1..Len(s)}

UpperCaseLetters == Range(UpperCase)
LowerCaseLetters == Range(LowerCase)

IsUpper(c) == c \in UpperCaseLetters
IsLower(c) == c \in LowerCaseLetters
IsDigit(c) == c \in {"0", "1", "2", "3", "4", "5", "6", "7", "8", "9"}

\* the regular-expression class \s
WhiteSpace == {" ", "\n", "\t"}
IsSpace(c) == c \in WhiteSpace

\* the regular-expression class \w, whose edges are the \b boundaries
IsWordChar(c) == IsUpper(c) \/ IsLower(c) \/ IsDigit(c) \/ c = "_"

\* the class [.!?]
Terminators == {".", "!", "?"}
IsTerminator(c) == c \in Terminators

LowerOf(c) ==
  IF IsUpper(c)
    THEN LowerCase[CHOOSE i \in 1..Len(UpperCase) : UpperCase[i] = c]
    ELSE c

UpperOf(c) ==
  IF IsLower(c)
    THEN UpperCase[CHOOSE i \in 1..Len(LowerCase) : LowerCase[i] = c]
    ELSE c

\* a scorer that compares without folding case
toLowerCase_Identity(s) == s

\* String.prototype.toLowerCase (the concatenation makes the result a tuple)
toLowerCase(s) == [i \in 1..Len(s) |-> LowerOf(s[i])] \o <<>>

\* String.prototype.includes
includes(s, p) ==
  \E i \in 1..(Len(s) - Len(p) + 1) :
    \A k \in 1..Len(p) : s[i + k - 1] = p[k]

\* String.prototype.trim
trim(s) ==
  IF \A i \in 1..Len(s) : IsSpace(s[i])
    THEN <<>>
    ELSE LET a == CHOOSE i \in 1..Len(s) :
                    /\ ~IsSpace(s[i])
                    /\ \A k \in 1..(i - 1) : IsSpace(s[k])
             b == CHOOSE j \in 1..Len(s) :
                    /\ ~IsSpace(s[j])
                    /\ \A k \in (j + 1)..Len(s) : IsSpace(s[k])
         IN  SubSeq(s, a, b)

\* The pieces of s that a split on runs of separator characters leaves once
\* the empty pieces are dropped: the maximal runs of non-separator
\* characters, each given as its span <<first, last>> of positions in s.
Runs(s, separators) ==
  LET n == Len(s)
      starts == {i \in 1..n : /\ s[i] \notin separators
                              /\ i = 1 \/ s[i - 1] \in separators}
      last(i) == CHOOSE j \in i..n :
                   /\ j = n \/ s[j + 1] \in separators
                   /\ \A k \in i..j : s[k] \notin separators
  IN  {<<i, last(i)>> : i \in starts}

SpanLen(w) == w[2] - w[1] + 1

(***************************************************************************)
(* JavaScript numbers: [k |-> "fin", n |-> numerator, d |-> denominator]    *)
(* in lowest terms with d > 0, [k |-> "inf"] with the sign in n, and NaN.   *)
(***************************************************************************)
RECURSIVE GCD(_, _)
GCD(a, b) == IF b = 0 THEN a ELSE GCD(b, a % b)

AbsInt(x) == IF x < 0 THEN -x ELSE x
Sgn(x) == IF x < 0 THEN -1 ELSE IF x > 0 THEN 1 ELSE 0

Rat(n, d) ==
  LET g == GCD(AbsInt(n), d)
  IN  [k |-> "fin", n |-> n \div g, d |-> d \div g]

Num(n) == [k |-> "fin", n |-> n, d |-> 1]
NaN == [k |-> "nan", n |-> 0, d |-> 1]
Infinity(sign) == [k |-> "inf", n |-> sign, d |-> 1]

IsFinite(a) == a.k = "fin"
IsInteger(a) == a.k = "fin" /\ a.d = 1

Neg(a) == [a EXCEPT !.n = -a.n]

Add(a, b) ==
  CASE a.k = "nan" \/ b.k = "nan" -> NaN
    [] a.k = "inf" /\ b.k = "inf" -> IF a.n = b.n THEN a ELSE NaN
    [] a.k = "inf" -> a
    [] b.k = "inf" -> b
    [] OTHER -> Rat(a.n * b.d + b.n * a.d, a.d * b.d)

Sub(a, b) == Add(a, Neg(b))

Mul(a, b) ==
  CASE a.k = "nan" \/ b.k = "nan" -> NaN
    [] a.k = "inf" \/ b.k = "inf" ->
         IF a.n = 0 \/ b.n = 0 THEN NaN ELSE Infinity(Sgn(a.n) * Sgn(b.n))
    [] OTHER -> Rat(a.n * b.n, a.d * b.d)

\* a zero divisor is always +0 here: every divisor is a length or a literal
Div(a, b) ==
  CASE a.k = "nan" \/ b.k = "nan" -> NaN
    [] a.k = "inf" /\ b.k = "inf" -> NaN
    [] a.k = "inf" -> Infinity(IF b.n < 0 THEN -a.n ELSE a.n)
    [] b.k = "inf" -> Num(0)
    [] b.n = 0 -> IF a.n = 0 THEN NaN ELSE Infinity(Sgn(a.n))
    [] OTHER -> Rat(a.n * b.d * Sgn(b.n), a.d * AbsInt(b.n))

\* the < operator: false as soon as an operand is NaN
Lt(a, b) ==
  CASE a.k = "nan" \/ b.k = "nan" -> FALSE
    [] a.k = "inf" /\ b.k = "inf" -> a.n < b.n
    [] a.k = "inf" -> a.n < 0
    [] b.k = "inf" -> b.n > 0
    [] OTHER -> a.n * b.d < b.n * a.d

MathAbs(a) == [a EXCEPT !.n = AbsInt(a.n)]

MathMin(a, b) ==
  IF a.k = "nan" \/ b.k = "nan" THEN NaN ELSE IF Lt(b, a) THEN b ELSE a

MathMax(a, b) ==
  IF a.k = "nan" \/ b.k = "nan" THEN NaN ELSE IF Lt(a, b) THEN b ELSE a

\* Math.round: the nearest integer, a tie going up; NaN and the infinities
\* are returned unchanged
MathRound(a) ==
  IF a.k = "fin" THEN Num((2 * a.n + a.d) \div (2 * a.d)) ELSE a

(***************************************************************************)
(* ResumeScoring: the scorer                                               *)
(***************************************************************************)
jobKeywords ==
  << <<"r", "e", "a", "c", "t">>,
     <<"j", "a", "v", "a", "s", "c", "r", "i", "p", "t">>,
     <<"t", "y", "p", "e", "s", "c", "r", "i", "p", "t">>,
     <<"p", "y", "t", "h", "o", "n">>,
     <<"n", "o", "d", "e", ".", "j", "s">>,
     <<"a", "w", "s">>,
     <<"d", "o", "c", "k", "e", "r">>,
     <<"l", "e", "a", "d", "e", "r", "s", "h", "i", "p">>,
     <<"m", "a", "n", "a", "g", "e", "m", "e", "n", "t">>,
     <<"t", "e", "a", "m">>,
     <<"p", "r", "o", "j", "e", "c", "t">>,
     <<"a", "g", "i", "l", "e">>,
     <<"s", "c", "r", "u", "m">>,
     <<"c", "o", "m", "m", "u", "n", "i", "c", "a", "t", "i", "o", "n">>,
     <<"p", "r", "o", "b", "l", "e", "m", "-", "s", "o", "l", "v", "i", "n", "g">>,
     <<"a", "n", "a", "l", "y", "t", "i", "c", "a", "l">>,
     <<"s", "t", "r", "a", "t", "e", "g", "i", "c">>,
     <<"e", "x", "p", "e", "r", "i", "e", "n", "c", "e">>,
     <<"s", "k", "i", "l", "l", "s">>,
     <<"e", "d", "u", "c", "a", "t", "i", "o", "n">>,
     <<"c", "e", "r", "t", "i", "f", "i", "c", "a", "t", "i", "o", "n">>,
     <<"a", "c", "h", "i", "e", "v", "e", "m", "e", "n", "t">>,
     <<"d", "e", "v", "e", "l", "o", "p", "m", "e", "n", "t">>,
     <<"d", "e", "s", "i", "g", "n">>,
     <<"i", "m", "p", "l", "e", "m", "e", "n", "t", "a", "t", "i", "o", "n">>,
     <<"o", "p", "t", "i", "m", "i", "z", "a", "t", "i", "o", "n">>,
     <<"c", "o", "l", "l", "a", "b", "o", "r", "a", "t", "i", "o", "n">> >>

LowercaseIMessage == "Use of lowercase \"i\" instead of \"I\""
MissingPunctuationMessage == "Missing punctuation at the end"
MultipleSpacesMessage == "Multiple consecutive spaces found"

KeywordsSuggestion == "Include more relevant industry keywords and technical skills"
GrammarSuggestion == "Review grammar and punctuation throughout the document"
ReadabilitySuggestion == "Simplify sentence structure and reduce complex terminology"
FormattingSuggestion == "Ensure proper formatting with consistent structure and contact information"
SkillsSuggestion == "Add more specific technical skills and industry-relevant terms"

\* content.split(/[.!?]+/).filter(s => s.trim().length > 0), as spans
sentencesOf(content) ==
  {s \in Runs(content, Terminators) :
     \E k \in s[1]..s[2] : ~IsSpace(content[k])}

\* content.split(/\s+/).filter(w => w.length > 0), as spans
wordsOf(content) == Runs(content, WhiteSpace)

\* jobKeywords.filter(keyword => text.includes(keyword.toLowerCase()))
matchedKeywordsOf(text) ==
  SelectSeq(jobKeywords, LAMBDA keyword : includes(text, toLowerCase(keyword)))

keywordScoreOf(matchedKeywords) ==
  MathMin(Mul(Div(Num(Len(matchedKeywords)), Num(Len(jobKeywords))), Num(100)),
          Num(100))

\* /[.!?]$/.test(content.trim())
EndsWithTerminator(content) ==
  LET t == trim(content) IN Len(t) > 0 /\ IsTerminator(t[Len(t)])

\* the double-space check made before the punctuation check
grammarIssuesOf_Reordered(text, content) ==
  (IF includes(text, <<" ", "i", " ">>) THEN <<LowercaseIMessage>> ELSE <<>>)
  \o (IF includes(content, <<" ", " ">>) THEN <<MultipleSpacesMessage>> ELSE <<>>)
  \o (IF ~EndsWithTerminator(content) THEN <<MissingPunctuationMessage>> ELSE <<>>)

grammarIssuesOf(text, content) ==
  (IF includes(text, <<" ", "i", " ">>) THEN <<LowercaseIMessage>> ELSE <<>>)
  \o (IF ~EndsWithTerminator(content) THEN <<MissingPunctuationMessage>> ELSE <<>>)
  \o (IF includes(content, <<" ", " ">>) THEN <<MultipleSpacesMessage>> ELSE <<>>)

grammarScoreOf(grammarIssues) ==
  MathMax(Sub(Num(100), Mul(Num(Len(grammarIssues)), Num(15))), Num(0))

avgWordsPerSentenceOf(words, sentences) ==
  Div(Num(Cardinality(words)), Num(Cardinality(sentences)))

complexWordsOf(words) == Cardinality({word \in words : SpanLen(word) > 7})

readabilityScoreOf(avgWordsPerSentence, complexWords, words) ==
  MathMin(
    Sub(Sub(Num(100), Mul(MathAbs(Sub(avgWordsPerSentence, Num(15))), Num(2))),
        Mul(Div(Num(complexWords), Num(Cardinality(words))), Num(50))),
    Num(100))

\* the four digits looked for without the word boundaries: /\d{4}/
HasYear_AnyFourDigits(content) ==
  \E i \in 1..(Len(content) - 3) : \A k \in 0..3 : IsDigit(content[i + k])

\* /\b\d{4}\b/.test(content)
HasYear(content) ==
  \E i \in 1..(Len(content) - 3) :
    /\ \A k \in 0..3 : IsDigit(content[i + k])
    /\ i = 1 \/ ~IsWordChar(content[i - 1])
    /\ i + 3 = Len(content) \/ ~IsWordChar(content[i + 4])

formattingScoreOf(content) ==
  LET s1 == IF Len(content) < 200 THEN 100 - 30 ELSE 100
      s2 == IF Len(content) > 5000 THEN s1 - 20 ELSE s1
      s3 == IF ~includes(content, <<"@">>) THEN s2 - 10 ELSE s2
      s4 == IF ~HasYear(content) THEN s3 - 10 ELSE s3
  IN  MathMax(Num(s4), Num(0))

\* the mean truncated instead of rounded
overallOf_Floor(breakdown) ==
  LET mean == Div(Add(Add(Add(breakdown.formatting, breakdown.keywords),
                          breakdown.grammar),
                      breakdown.readability),
                  Num(4))
  IN  IF mean.k = "fin" THEN Num(mean.n \div mean.d) ELSE mean

overallOf(breakdown) ==
  MathRound(Div(Add(Add(Add(breakdown.formatting, breakdown.keywords),
                        breakdown.grammar),
                    breakdown.readability),
                Num(4)))

\* the matched-keyword suggestion pushed first instead of last
suggestionsOf_SkillsFirst(breakdown, matchedKeywords) ==
  (IF Len(matchedKeywords) < 5 THEN <<SkillsSuggestion>> ELSE <<>>)
  \o (IF Lt(breakdown.keywords, Num(60)) THEN <<KeywordsSuggestion>> ELSE <<>>)
  \o (IF Lt(breakdown.grammar, Num(80)) THEN <<GrammarSuggestion>> ELSE <<>>)
  \o (IF Lt(breakdown.readability, Num(70)) THEN <<ReadabilitySuggestion>> ELSE <<>>)
  \o (IF Lt(breakdown.formatting, Num(80)) THEN <<FormattingSuggestion>> ELSE <<>>)

suggestionsOf(breakdown, matchedKeywords) ==
  (IF Lt(breakdown.keywords, Num(60)) THEN <<KeywordsSuggestion>> ELSE <<>>)
  \o (IF Lt(breakdown.grammar, Num(80)) THEN <<GrammarSuggestion>> ELSE <<>>)
  \o (IF Lt(breakdown.readability, Num(70)) THEN <<ReadabilitySuggestion>> ELSE <<>>)
  \o (IF Lt(breakdown.formatting, Num(80)) THEN <<FormattingSuggestion>> ELSE <<>>)
  \o (IF Len(matchedKeywords) < 5 THEN <<SkillsSuggestion>> ELSE <<>>)

analyzeResume(content) ==
  LET text == toLowerCase(content)
      sentences == sentencesOf(content)
      words == wordsOf(content)
      matchedKeywords == matchedKeywordsOf(text)
      keywordScore == keywordScoreOf(matchedKeywords)
      grammarIssues == grammarIssuesOf(text, content)
      grammarScore == grammarScoreOf(grammarIssues)
      avgWordsPerSentence == avgWordsPerSentenceOf(words, sentences)
      complexWords == complexWordsOf(words)
      readabilityScore ==
        readabilityScoreOf(avgWordsPerSentence, complexWords, words)
      formattingScore == formattingScoreOf(content)
      breakdown == [formatting  |-> MathRound(formattingScore),
                    keywords    |-> MathRound(keywordScore),
                    grammar     |-> MathRound(grammarScore),
                    readability |-> MathRound(readabilityScore)]
      overall == overallOf(breakdown)
      suggestions == suggestionsOf(breakdown, matchedKeywords)
  IN  [overall |-> overall,
       breakdown |-> breakdown,
       suggestions |-> suggestions,
       matchedKeywords |-> matchedKeywords,
       grammarIssues |-> grammarIssues,
       readabilityMetrics |->
         [sentences |-> Cardinality(sentences),
          avgWordsPerSentence |->
            Div(MathRound(Mul(avgWordsPerSentence, Num(10))), Num(10)),
          complexWords |-> complexWords]]

(***************************************************************************)
(* The scorer driven over bounded inputs.  An input is up to MaxChunks      *)
(* pieces of text typed one after the other, optionally put after a pasted  *)
(* body (filler words, or a line of skills), with up to MaxRecase letters   *)
(* changed in case while no body is pasted.                                 *)
(***************************************************************************)
MaxChunks == 2
MaxRecase == 1
MaxPadAfter == 1
ShortBodyLen == 200
LongBodyLen == 5001

Chunks ==
  { <<>>,
    <<"a", "w", "s">>,
    <<"T", "e", "a", "m">>,
    <<"s", "t", "r", "a", "t", "e", "g", "i", "c">>,
    <<" ", "i", " ">>,
    <<" ", "I", " ">>,
    <<" ">>,
    <<"\n">>,
    <<".">>,
    <<"?">>,
    <<"@">>,
    <<"2", "0", "2", "3">>,
    <<"@", " ", "2", "0", "2", "3">>,
    <<"H", "i", " ", " ", "t", "h", "e", "r", "e", ".">> }

\* n characters of seven-letter words, one space after each
Filler(n) == [i \in 1..n |-> IF i % 8 = 0 THEN " " ELSE "x"] \o <<>>

\* a line of skills that names five keywords
SkillsLine ==
  <<"r", "e", "a", "c", "t", " ", "p", "y", "t", "h", "o", "n", " ",
    "d", "o", "c", "k", "e", "r", " ", "a", "g", "i", "l", "e", " ", "s",
    "c", "r", "u", "m">>

Bodies == {Filler(ShortBodyLen), Filler(LongBodyLen), SkillsLine}

VARIABLES input, result, typed, padded, recased

svars == <<input, result, typed, padded, recased>>

(***************************************************************************)
(* Index, ResumeScoring and ResumeUpload: the application state             *)
(***************************************************************************)
VARIABLES
  resumeContent,  \* Index: the resumeContent state, ResumeScoring's prop
  filename,       \* Index: the filename state
  analysis,       \* ResumeScoring: the analysis state, null or a result
  isAnalyzing,    \* ResumeScoring: the isAnalyzing state
  timer,          \* the setTimeout of the last effect run: pending or not,
                  \* and the resumeContent its callback closes over
  effectPending,  \* a render committed a new resumeContent and React has not
                  \* yet run the effect for it (nor the previous cleanup)
  view,           \* what the last render of ResumeScoring returned
  invoked,        \* history: the contents analyzeResume was called with
  pastedText,     \* ResumeUpload: the pastedText state
  uploadedFile,   \* ResumeUpload: the uploadedFile state
  isProcessing,   \* ResumeUpload: the isProcessing state
  toasted,        \* the notification last raised with toast()
  pc,             \* where the running processFile call is suspended
  file,           \* the file the running processFile call was given
  content,        \* processFile's local content
  filePath,       \* uploadToStorage's local filePath
  storage,        \* the objects of the 'resumes' storage bucket, by path
  table,          \* the rows of the resumes table
  uploads,        \* the number of processFile calls so far (the clock of Date.now())
  outcome,        \* history: how the last processFile call ended
  delivered       \* history: the running or last processFile call has called onResumeContent

uivars == <<resumeContent, filename, analysis, isAnalyzing, timer,
            effectPending, view, invoked>>

upvars == <<pastedText, uploadedFile, isProcessing, toasted, pc, file, content,
            filePath, storage, table, uploads, outcome, delivered>>

vars == <<uivars, upvars, svars>>

MaxUploads == 2
PreviewLen == 1000

null == [null |-> TRUE]
undefined == [undefined |-> TRUE]

NoTimer == [pending |-> FALSE, content |-> <<>>]

Empty == <<>>
Blank == <<" ", "\n">>
TextA == <<"a", "w", "s", ".">>
TextB == <<"T", "e", "a", "m", " ", "i", " ", "x">>

PastedTexts == {Blank, TextA}

PdfType == "application/pdf"
DocxType == "application/vnd.openxmlformats-officedocument.wordprocessingml.document"
TxtType == "text/plain"

\* the files the user can choose, each with the text its extraction yields
Files ==
  { [name |-> "a.pdf", type |-> PdfType, text |-> TextA],
    [name |-> "b.txt", type |-> TxtType, text |-> TextB],
    [name |-> "scan.docx", type |-> DocxType, text |-> Blank],
    [name |-> "c.png", type |-> "image/png", text |-> Empty] }

IsTruthy(s) == Len(s) > 0

\* the value ResumeScoring returns, from its props and state
Render(rc, analyzing, an) ==
  IF ~IsTruthy(trim(rc)) THEN [kind |-> "placeholder", analysis |-> null]
  ELSE IF analyzing THEN [kind |-> "analyzing", analysis |-> null]
  ELSE IF an = null THEN [kind |-> "nothing", analysis |-> null]
  ELSE [kind |-> "analysis", analysis |-> an]

\* an effect that returns no cleanup: the previous timer is left running
Effect_NoCleanup(rc, st) ==
  IF IsTruthy(trim(rc))
    THEN [st EXCEPT !.isAnalyzing = TRUE,
                    !.timer = [pending |-> TRUE, content |-> rc]]
    ELSE [st EXCEPT !.analysis = null]

\* One run of the effect for resumeContent rc on the component state st:
\* the cleanup the previous run returned (clearTimeout), then the body.
Effect(rc, st) ==
  IF IsTruthy(trim(rc))
    THEN [st EXCEPT !.isAnalyzing = TRUE,
                    !.timer = [pending |-> TRUE, content |-> rc]]
    ELSE [st EXCEPT !.analysis = null, !.timer = NoTimer]

Component == [analysis |-> analysis, isAnalyzing |-> isAnalyzing, timer |-> timer]

\* handleResumeContent(c, f) and the render it causes.  React runs the
\* effects still pending from the previous commit before it renders.  The
\* effect of the new commit runs in the same step when the update comes
\* from a click (sync), and is left pending when it comes from the
\* continuation of an await.
handleResumeContent(c, f, sync) ==
  IF c = resumeContent /\ f = filename
    THEN UNCHANGED uivars
    ELSE LET flushed == IF effectPending THEN Effect(resumeContent, Component)
                                          ELSE Component
             changed == c # resumeContent
             st == IF changed /\ sync THEN Effect(c, flushed) ELSE flushed
         IN  /\ resumeContent' = c
             /\ filename' = f
             /\ analysis' = st.analysis
             /\ isAnalyzing' = st.isAnalyzing
             /\ timer' = st.timer
             /\ effectPending' = (changed /\ ~sync)
             /\ view' = Render(c, st.isAnalyzing, st.analysis)
             /\ UNCHANGED invoked

\* React runs the pending effect, and renders the state it has set
RunEffect ==
  /\ effectPending
  /\ LET st == Effect(resumeContent, Component)
     IN  /\ analysis' = st.analysis
         /\ isAnalyzing' = st.isAnalyzing
         /\ timer' = st.timer
         /\ view' = Render(resumeContent, st.isAnalyzing, st.analysis)
  /\ effectPending' = FALSE
  /\ UNCHANGED <<resumeContent, filename, invoked>>
  /\ UNCHANGED upvars
  /\ UNCHANGED svars

\* the 1500 ms timer expires and its callback runs; the render it asks for
\* waits for a pending effect
TimerFires ==
  /\ timer.pending
  /\ analysis' = analyzeResume(timer.content)
  /\ isAnalyzing' = FALSE
  /\ timer' = NoTimer
  /\ invoked' = invoked \cup {timer.content}
  /\ view' = IF effectPending THEN view
                              ELSE Render(resumeContent, FALSE, analysis')
  /\ UNCHANGED <<resumeContent, filename, effectPending>>
  /\ UNCHANGED upvars
  /\ UNCHANGED svars

(***************************************************************************)
(* ResumeUpload                                                            *)
(***************************************************************************)
UnsupportedMessage == "Unsupported file format. Please use PDF, DOCX, or TXT files."
UploadFailedMessage == "Upload failed"
DatabaseErrorMessage == "Database error"
ThrownMessage == "Failed to process file"

SuccessToast(description) == [title |-> "Success", description |-> description]
ErrorToast(description) == [title |-> "Error", description |-> description]

IsSupported(f) == f.type \in {PdfType, DocxType, TxtType}

\* content.substring(0, 1000)
Preview(c) == SubSeq(c, 1, IF Len(c) < PreviewLen THEN Len(c) ELSE PreviewLen)

\* the catch and finally blocks of processFile
Failed(message) ==
  /\ toasted' = ErrorToast(message)
  /\ isProcessing' = FALSE
  /\ pc' = "idle"
  /\ outcome' = "failed"
  /\ UNCHANGED uivars

\* setPastedText, from the textarea (disabled once a file is uploaded)
TypeText(t) ==
  /\ uploadedFile = null
  /\ pastedText' = t
  /\ UNCHANGED <<uploadedFile, isProcessing, toasted, pc, file, content,
                 filePath, storage, table, uploads, outcome, delivered>>
  /\ UNCHANGED uivars
  /\ UNCHANGED svars

\* the click on "Analyze Pasted Text" (disabled while the text is blank or
\* a file is uploaded)
handleTextSubmit ==
  /\ uploadedFile = null
  /\ IsTruthy(trim(pastedText))
  /\ handleResumeContent(pastedText, "Pasted Resume", TRUE)
  /\ uploadedFile' = null
  /\ toasted' = SuccessToast("Resume text submitted successfully!")
  /\ UNCHANGED <<pastedText, isProcessing, pc, file, content, filePath,
                 storage, table, uploads, outcome, delivered>>
  /\ UNCHANGED svars

\* the click on the X of the uploaded file
clearUpload ==
  /\ uploadedFile # null
  /\ uploadedFile' = null
  /\ pastedText' = Empty
  /\ handleResumeContent(Empty, undefined, TRUE)
  /\ UNCHANGED <<isProcessing, toasted, pc, file, content, filePath, storage,
                 table, uploads, outcome, delivered>>
  /\ UNCHANGED svars

\* processFile(f), from handleDrop or handleFileSelect, up to its first
\* await; an unsupported type throws before any await
processFile(f) ==
  /\ pc = "idle"
  /\ ~isProcessing
  /\ uploads < MaxUploads
  /\ uploads' = uploads + 1
  /\ file' = f
  /\ content' = Empty
  /\ delivered' = FALSE
  /\ IF IsSupported(f)
       THEN /\ isProcessing' = TRUE
            /\ pc' = "extract"
            /\ outcome' = "running"
            /\ UNCHANGED toasted
            /\ UNCHANGED uivars
       ELSE Failed(UnsupportedMessage)
  /\ UNCHANGED <<pastedText, uploadedFile, filePath, storage, table>>
  /\ UNCHANGED svars

\* onResumeContent called as soon as the text is extracted, before the upload
Extracted_DeliversEarly(ok) ==
  /\ pc = "extract"
  /\ IF ok
       THEN /\ content' = file.text
            /\ filePath' = <<uploads, file.name>>
            /\ pc' = "upload"
            /\ handleResumeContent(file.text, file.name, FALSE)
            /\ delivered' = TRUE
            /\ UNCHANGED <<isProcessing, toasted, outcome>>
       ELSE /\ Failed(ThrownMessage)
            /\ UNCHANGED <<content, filePath, delivered>>
  /\ UNCHANGED <<pastedText, uploadedFile, file, storage, table, uploads>>
  /\ UNCHANGED svars

\* the text extraction returns or throws; on return uploadToStorage starts
\* and suspends in storage.upload
Extracted(ok) ==
  /\ pc = "extract"
  /\ IF ok
       THEN /\ content' = file.text
            /\ filePath' = <<uploads, file.name>>
            /\ pc' = "upload"
            /\ UNCHANGED <<isProcessing, toasted, outcome>>
            /\ UNCHANGED uivars
       ELSE /\ Failed(ThrownMessage)
            /\ UNCHANGED <<content, filePath>>
  /\ UNCHANGED <<pastedText, uploadedFile, file, storage, table, uploads,
                 delivered>>
  /\ UNCHANGED svars

\* supabase.storage.from('resumes').upload returns (stored, or an error) or
\* throws
Uploaded(reply) ==
  /\ pc = "upload"
  /\ CASE reply = "ok" ->
            /\ storage' = storage \cup {filePath}
            /\ pc' = "insert"
            /\ UNCHANGED <<isProcessing, toasted, outcome>>
            /\ UNCHANGED uivars
       [] reply = "error" ->
            /\ Failed(UploadFailedMessage)
            /\ UNCHANGED storage
       [] reply = "thrown" ->
            /\ Failed(ThrownMessage)
            /\ UNCHANGED storage
  /\ UNCHANGED <<pastedText, uploadedFile, file, content, filePath, table,
                 uploads, delivered>>
  /\ UNCHANGED svars

\* supabase.from('resumes').insert returns (inserted, or an error) or throws
Inserted(reply) ==
  /\ pc = "insert"
  /\ CASE reply = "ok" ->
            /\ table' = table \cup
                 {[filename |-> file.name, file_path |-> filePath,
                   content_preview |-> null]}
            /\ pc' = "update"
            /\ UNCHANGED <<isProcessing, toasted, outcome>>
            /\ UNCHANGED uivars
       [] reply = "error" ->
            /\ Failed(DatabaseErrorMessage)
            /\ UNCHANGED table
       [] reply = "thrown" ->
            /\ Failed(ThrownMessage)
            /\ UNCHANGED table
  /\ UNCHANGED <<pastedText, uploadedFile, file, content, filePath, storage,
                 uploads, delivered>>
  /\ UNCHANGED svars

\* supabase.from('resumes').update(...).eq('file_path', filePath) returns
\* (updated, or an error that nobody reads) or throws; on return the file is
\* shown, its text handed to onResumeContent and success notified
Updated(reply) ==
  /\ pc = "update"
  /\ table' = IF reply = "ok"
                THEN {IF row.file_path = filePath
                        THEN [row EXCEPT !.content_preview = Preview(content)]
                        ELSE row : row \in table}
                ELSE table
  /\ IF reply = "thrown"
       THEN /\ Failed(ThrownMessage)
            /\ UNCHANGED <<uploadedFile, delivered>>
       ELSE /\ uploadedFile' = file
            /\ handleResumeContent(content, file.name, FALSE)
            /\ delivered' = TRUE
            /\ toasted' = SuccessToast("uploaded and saved successfully!")
            /\ isProcessing' = FALSE
            /\ pc' = "idle"
            /\ outcome' = "succeeded"
  /\ UNCHANGED <<pastedText, file, content, filePath, storage, uploads>>
  /\ UNCHANGED svars

Replies == {"ok", "error", "thrown"}

(***************************************************************************)
(* Specifications                                                          *)
(***************************************************************************)
\* the application as mounted: empty content, the mount effect not yet run
AppInit ==
  /\ resumeContent = Empty
  /\ filename = undefined
  /\ analysis = null
  /\ isAnalyzing = FALSE
  /\ timer = NoTimer
  /\ effectPending = TRUE
  /\ view = Render(Empty, FALSE, null)
  /\ invoked = {}
  /\ pastedText = Empty
  /\ uploadedFile = null
  /\ isProcessing = FALSE
  /\ toasted = null
  /\ pc = "idle"
  /\ file = null
  /\ content = Empty
  /\ filePath = <<0, "">>
  /\ storage = {}
  /\ table = {}
  /\ uploads = 0
  /\ outcome = "none"
  /\ delivered = FALSE

ScorerInit ==
  /\ input = <<>>
  /\ result = null
  /\ typed = 0
  /\ padded = FALSE
  /\ recased = 0

Init == AppInit /\ ScorerInit

Next ==
  \/ RunEffect
  \/ TimerFires
  \/ \E t \in PastedTexts : TypeText(t)
  \/ handleTextSubmit
  \/ clearUpload
  \/ \E f \in Files : processFile(f)
  \/ \E ok \in BOOLEAN : Extracted(ok)
  \/ \E reply \in Replies : Uploaded(reply)
  \/ \E reply \in Replies : Inserted(reply)
  \/ \E reply \in Replies : Updated(reply)

Spec == Init /\ [][Next]_vars

Type(chunk) ==
  /\ typed < MaxChunks
  /\ ~padded
  /\ recased = 0
  /\ input' = input \o chunk
  /\ result' = analyzeResume(input')
  /\ typed' = typed + 1
  /\ UNCHANGED <<padded, recased>>
  /\ UNCHANGED <<uivars, upvars>>

Pad(body) ==
  /\ ~padded
  /\ typed <= MaxPadAfter
  /\ recased = 0
  /\ input' = body \o input
  /\ result' = analyzeResume(input')
  /\ padded' = TRUE
  /\ UNCHANGED <<typed, recased>>
  /\ UNCHANGED <<uivars, upvars>>

Recase(i) ==
  /\ ~padded
  /\ recased < MaxRecase
  /\ IsUpper(input[i]) \/ IsLower(input[i])
  /\ input' = [input EXCEPT ![i] = IF IsUpper(@) THEN LowerOf(@) ELSE UpperOf(@)]
  /\ result' = analyzeResume(input')
  /\ recased' = recased + 1
  /\ UNCHANGED <<typed, padded>>
  /\ UNCHANGED <<uivars, upvars>>

AnalyzeNext ==
  \/ \E chunk \in Chunks : Type(chunk)
  \/ \E body \in Bodies : Pad(body)
  \/ \E i \in 1..Len(input) : Recase(i)

SpecAnalyze == Init /\ [][AnalyzeNext]_vars

(***************************************************************************)
(* Properties                                                              *)
(***************************************************************************)
Analysed == result # null

BreakdownSum ==
  result.breakdown.formatting.n + result.breakdown.keywords.n
    + result.breakdown.grammar.n + result.breakdown.readability.n

BreakdownIsFinite ==
  /\ IsInteger(result.breakdown.formatting)
  /\ IsInteger(result.breakdown.keywords)
  /\ IsInteger(result.breakdown.grammar)
  /\ IsInteger(result.breakdown.readability)

\* C1: the overall score is the mean of the four rounded sub-scores of the
\* breakdown, rounded to the nearest integer with a tie going up; when the
\* readability sub-score is not a finite number, the overall score is that
\* same non-finite value.
C1_OverallIsRoundedMean ==
  Analysed =>
    IF BreakdownIsFinite
      THEN /\ IsInteger(result.overall)
           /\ BreakdownSum - 2 < 4 * result.overall.n
           /\ 4 * result.overall.n <= BreakdownSum + 2
      ELSE result.overall = result.breakdown.readability

\* a mean that lies exactly between two integers has been rounded
C1_Witness ==
  /\ Analysed
  /\ BreakdownIsFinite
  /\ BreakdownSum % 4 = 2
  /\ 4 * result.overall.n = BreakdownSum + 2

\* C2: for every text that is not empty or whitespace-only, the overall
\* score is an integer in [0,100].
C2_OverallInRange ==
  (Analysed /\ IsTruthy(trim(input))) =>
    /\ IsInteger(result.overall)
    /\ 0 <= result.overall.n
    /\ result.overall.n <= 100

\* C3: the rounded formatting, keywords and grammar sub-scores are integers
\* in [0,100] and the rounded readability sub-score is an integer that is
\* at most 100.
C3_SubScoreRanges ==
  Analysed =>
    /\ \A s \in {result.breakdown.formatting, result.breakdown.keywords,
                 result.breakdown.grammar} :
         IsInteger(s) /\ 0 <= s.n /\ s.n <= 100
    /\ IsInteger(result.breakdown.readability)
    /\ result.breakdown.readability.n <= 100

\* C4: with zero sentences or zero words, the average words per sentence,
\* the readability score and the overall score are finite numbers.
C4_DegenerateInputsFinite ==
  (Analysed /\ (Cardinality(sentencesOf(input)) = 0
                  \/ Cardinality(wordsOf(input)) = 0)) =>
    /\ IsFinite(result.readabilityMetrics.avgWordsPerSentence)
    /\ IsFinite(result.breakdown.readability)
    /\ IsFinite(result.overall)

\* C5: whenever a result is stored in the analysis state, it is the result
\* for the resume content of that moment, never the result for an earlier
\* content.
C5_LastInputWins ==
  [][(analysis' # analysis /\ analysis' # null)
       => analysis' = analyzeResume(resumeContent')]_vars

\* C6: whenever the render shows an analysis, it is the analysis of the
\* current resume content.
C6_NoStaleDisplay ==
  view.kind = "analysis" => view.analysis = analyzeResume(resumeContent)

\* C7: the scorer is never invoked with an empty or whitespace-only content;
\* while the content is empty or whitespace-only the placeholder is what is
\* rendered, and once the effect for it has run no timer is pending and the
\* stored analysis is null.
C7_BlankInputClears ==
  /\ \A c \in invoked : IsTruthy(trim(c))
  /\ ~IsTruthy(trim(resumeContent)) =>
       /\ view.kind = "placeholder"
       /\ ~effectPending => (analysis = null /\ ~timer.pending)

\* a whitespace-only content arrived while an analysis was pending: its
\* timer was cancelled before it fired
C7_Witness ==
  /\ resumeContent = Blank
  /\ ~effectPending
  /\ isAnalyzing
  /\ ~timer.pending
  /\ analysis = null
  /\ view.kind = "placeholder"

\* C8: the step in which a processFile call fails raises an error
\* notification and resets isProcessing, the call has not called
\* onResumeContent, and the step leaves the resume content, the filename
\* and the analysis state as they were.
C8_FailedUploadLeavesContent ==
  [][((pc # "idle" \/ uploads' # uploads) /\ outcome' = "failed")
       => /\ ~delivered'
          /\ toasted'.title = "Error"
          /\ ~isProcessing'
          /\ pc' = "idle"
          /\ UNCHANGED uivars]_vars

\* a call failed at the metadata insert while an analysis was displayed
C8_Witness ==
  /\ outcome = "failed"
  /\ toasted = ErrorToast(DatabaseErrorMessage)
  /\ storage # {}
  /\ ~isProcessing
  /\ ~delivered
  /\ view.kind = "analysis"

\* C9: the matched keywords belong to the vocabulary, the keyword score is
\* matched count / vocabulary size x 100 (reported rounded to the nearest
\* integer), and changing the case of a letter of the input changes neither
\* the matched keywords nor the score.
C9_KeywordsCaseInsensitive ==
  [][result' # null =>
       LET matched == result'.matchedKeywords
           score == keywordScoreOf(matched)
           reported == result'.breakdown.keywords
       IN  /\ Range(matched) \subseteq Range(jobKeywords)
           /\ IsFinite(score)
           /\ score.n * Len(jobKeywords) = 100 * Len(matched) * score.d
           /\ IsInteger(reported)
           /\ 2 * AbsInt(Len(jobKeywords) * reported.n - 100 * Len(matched))
                <= Len(jobKeywords)
           /\ recased' > recased =>
                /\ matched = result.matchedKeywords
                /\ reported = result.breakdown.keywords]_vars

\* a letter of a text that matches a keyword has changed case
C9_Witness ==
  /\ Analysed
  /\ recased > 0
  /\ Len(result.matchedKeywords) > 0

HasDoubleSpace ==
  \E i \in 1..(Len(input) - 1) : input[i] = " " /\ input[i + 1] = " "

LastIsTerminator ==
  \E i \in 1..Len(input) :
    /\ IsTerminator(input[i])
    /\ \A k \in (i + 1)..Len(input) : IsSpace(input[k])

HasStandaloneI ==
  \E i \in 1..(Len(input) - 2) :
    input[i] = " " /\ input[i + 1] \in {"i", "I"} /\ input[i + 2] = " "

C11_LowercaseIOnly ==
  Analysed =>
    ((LowercaseIMessage \in Range(result.grammarIssues))
       <=> includes(input, <<" ", "i", " ">>))

\* the maximal runs of digits of the input, as spans
DigitRuns == Runs(input, {c \in Range(input) : ~IsDigit(c)})

HasFourDigitRun == \E r \in DigitRuns : SpanLen(r) = 4

\* a run of exactly four digits with no letter or underscore next to it
HasDelimitedFourDigitRun ==
  \E r \in DigitRuns :
    /\ SpanLen(r) = 4
    /\ r[1] = 1 \/ ~IsWordChar(input[r[1] - 1])
    /\ r[2] = Len(input) \/ ~IsWordChar(input[r[2] + 1])

FormattingExpected(hasFourDigits) ==
  LET deducted == 100 - (IF Len(input) < 200 THEN 30 ELSE 0)
                      - (IF Len(input) > 5000 THEN 20 ELSE 0)
                      - (IF "@" \notin Range(input) THEN 10 ELSE 0)
                      - (IF ~hasFourDigits THEN 10 ELSE 0)
  IN  Num(IF deducted < 0 THEN 0 ELSE deducted)

\* C12 as stated: the formatting score is max(0, 100 - 30 [length < 200]
\* - 20 [length > 5000] - 10 [no '@'] - 10 [no run of exactly four
\* consecutive digits]); a short text with no '@' and no four-digit run
\* scores 50, a text longer than 5000 characters with an '@' and a
\* four-digit run scores 80.
C12_FormattingScoreAnyRun ==
  Analysed =>
    /\ result.breakdown.formatting = FormattingExpected(HasFourDigitRun)
    /\ (Len(input) > 5000 /\ "@" \in Range(input) /\ HasFourDigitRun)
         => result.breakdown.formatting = Num(80)

\* C12 amended: the same formula, where the four-digit run counts only when
\* it is delimited on both sides (the start or end of the text, or a
\* character that is not a letter, a digit or an underscore).
C12_FormattingScore ==
  Analysed =>
    /\ result.breakdown.formatting = FormattingExpected(HasDelimitedFourDigitRun)
    /\ (Len(input) < 200 /\ "@" \notin Range(input) /\ ~HasFourDigitRun)
         => result.breakdown.formatting = Num(50)
    /\ (Len(input) > 5000 /\ "@" \in Range(input) /\ HasDelimitedFourDigitRun)
         => result.breakdown.formatting = Num(80)

\* a text longer than 5000 characters with an '@' and the year 2023
C12_Witness ==
  /\ Analysed
  /\ Len(input) > 5000
  /\ "@" \in Range(input)
  /\ HasDelimitedFourDigitRun
  /\ result.breakdown.formatting = Num(80)

\* C13: the matched-keyword suggestion is there exactly when fewer than five
\* keywords matched, and whenever it is there the keyword-score suggestion
\* is there too, first in the list and before it.
C13_SkillsImpliesKeywords ==
  Analysed =>
    LET s == result.suggestions
    IN  /\ (SkillsSuggestion \in Range(s)) <=> Len(result.matchedKeywords) < 5
        /\ (SkillsSuggestion \in Range(s)) =>
             /\ s[1] = KeywordsSuggestion
             /\ s[Len(s)] = SkillsSuggestion
             /\ Len(s) > 1
             /\ \A i \in 2..Len(s) : s[i] # KeywordsSuggestion
             /\ \A i \in 1..(Len(s) - 1) : s[i] # SkillsSuggestion

\* fewer than five keywords matched and both suggestions were made
C13_Witness ==
  /\ Analysed
  /\ Len(result.matchedKeywords) \in 1..4
  /\ KeywordsSuggestion \in Range(result.suggestions)
  /\ SkillsSuggestion \in Range(result.suggestions)

\* C14: isAnalyzing is true only while a delayed analysis timer is pending;
\* it is never left true with no timer pending, also after the content
\* is cleared or becomes blank during a pending analysis.
C14_AnalyzingOnlyWhileTimerPending == isAnalyzing => timer.pending

\* C15: after any run of processFile, an object is in the storage bucket
\* under a path exactly when a row of the resumes table has that file_path,
\* and a run that notified success and called onResumeContent left both the
\* object and its row, the row holding the preview of the extracted text.
C15_StorageMatchesTable ==
  (pc = "idle" /\ outcome \in {"succeeded", "failed"}) =>
    /\ storage = {row.file_path : row \in table}
    /\ (outcome = "succeeded" /\ delivered) =>
         /\ filePath \in storage
         /\ \E row \in table : /\ row.file_path = filePath
                               /\ row.content_preview = Preview(content)

====
